---- MODULE Spec2Model ----
(***************************************************************************)
(* MoodleDL (moodle_downloader.py): the download engine (download_file),   *)
(* the resource resolution chain (_process_resource_page) and the crawl    *)
(* (run, process_course, _process_resources, _process_folders,             *)
(* _process_assignments) as state machines.                                *)
(*                                                                         *)
(* Spec       a sequence of download_file calls on one target path.        *)
(* SpecCrawl  one run(): login, the selected courses, their sections and   *)
(*            the links of each section.                                   *)
(***************************************************************************)
EXTENDS Integers, Sequences, FiniteSets, TLC

VARIABLES
    \* ---- download_file: one top-level call and its recursive retries
    pc,             \* position inside download_file ("idle" outside a call)
    depth,          \* nested download_file frames below the top-level one
    logins,         \* login() invocations made by the current top-level call
    gets,           \* streaming GETs (line 306) issued by the current call
    resp,           \* headers of the streaming response of the current call
    decision,       \* branch taken at lines 344-366
    result,         \* return value: "none" (None) or "path" (full_path)
    outcome,        \* how the call ended
    pre,            \* the file at the target path when the call started
    file,           \* the file at the target path now
    errSite,        \* where the last exception was raised
    errCaught,      \* the function whose except clause caught it
    \* ---- what a call is made with
    force_download, \* self.force_download
    urlLogin,       \* "login" in url
    \* ---- the caller of Spec: consecutive calls with the same arguments
    calls,          \* completed top-level calls
    prev,           \* summary of the previous completed call
    \* ---- run(), process_course and the loops over the links of a section
    rpc,            \* position of the crawl ("none" in Spec)
    nsel,           \* len(selected_courses)
    ci,             \* index of the course being processed
    reached,        \* courses process_course was called for
    loggedIn,       \* the login() of run() returned True
    nsec,           \* len(sections) of the current course
    si,             \* index of the section being processed
    left,           \* links of the current loop not yet processed
    sub,            \* file links of the current folder or assignment page left
    \* ---- _process_resource_page: one call
    ppc,            \* position inside _process_resource_page
    hasId,          \* resource_id is not None
    page,           \* what the fetched resource page holds
    st,             \* strategy being evaluated, 1..8
    idx,            \* candidates of strategy st already tried
    evaluated,      \* strategies evaluated so far in this call
    attempts,       \* strategies whose candidate was passed to download_file
    pageResult,     \* return value: "none" or "path"
    debug,          \* the debug HTML file of this call has been written
    \* ---- the session
    loginBody,      \* body of the last response to a credential submission
    parsedLogin,    \* fetch whose body, a login page, is being used unchecked
    \* ---- one call of a function of the program on its own
    fnPc,           \* position of the call ("none" in Spec and SpecCrawl)
    fnArg,          \* its arguments
    fnRet           \* its return value, or what it has built so far

dlVars_noErr == <<pc, depth, logins, gets, resp, decision, result, outcome, pre,
                  file>>
dlVars == <<dlVars_noErr, errSite, errCaught>>
argVars == <<force_download, urlLogin>>
seqVars == <<calls, prev>>
crawlVars == <<rpc, nsel, ci, reached, loggedIn, nsec, si, left, sub>>
resVars == <<ppc, hasId, page, st, idx, evaluated, attempts, pageResult, debug>>
sessVars == <<loginBody, parsedLogin>>
fnVars == <<fnPc, fnArg, fnRet>>
callerVars == <<argVars, seqVars, crawlVars, resVars, parsedLogin, fnVars>>
vars == <<dlVars, argVars, seqVars, crawlVars, resVars, sessVars, fnVars>>

----------------------------------------------------------------------------
\* Bounds of the model

\* top-level download_file calls made on the target path
MaxCalls == 2
\* nested download_file frames the interpreter allows before RecursionError
MaxDepth == 1
\* a reported content length of a file that fits one chunk
SmallLen == 150
\* URLs the script regular expressions match on one resource page
MaxMatches == 1
\* courses selected in one run
NumCourses == 2
\* sections of one course page
MaxSections == 1
\* resource links of one section
MaxLinks == 1
\* folder links, and assignment links, of one section
MaxFolders == 1
\* file links of one folder or assignment page
MaxFiles == 1

\* Program constants
Tolerance == 100
ChunkSize == 8192
NumPatterns == 4

----------------------------------------------------------------------------
\* Files and responses

NoFile == [exists |-> FALSE, size |-> 0, ver |-> 0]

\* ver 0 is content that was on disk before the first call; ver n > 0 is the
\* body streamed by call n.
OldFile(n) == [exists |-> TRUE, size |-> n, ver |-> 0]

\* Reported lengths: zero, a one-chunk file, files of more than one chunk
\* whose last chunk is larger and smaller than the tolerance.
Lengths == {0, SmallLen, ChunkSize + SmallLen, ChunkSize + Tolerance - 1}

Deltas == {0 - Tolerance - 1, 0 - Tolerance, 1 - Tolerance, 0 - 1, 0, 1,
           Tolerance - 1, Tolerance, Tolerance + 1}

\* What can be at the target path before the first call.
InitFiles == {NoFile, OldFile(0)} \cup {OldFile(SmallLen + d) : d \in Deltas}

NoResp == [got |-> FALSE, present |-> FALSE, value |-> 0]

\* The content-length header of a streaming response: absent, or a length.
Headers == {[got |-> TRUE, present |-> FALSE, value |-> 0]}
           \cup {[got |-> TRUE, present |-> TRUE, value |-> n] : n \in Lengths}

\* a missing content-length header read as one chunk to come
LengthOrChunk(h) == IF h.present THEN h.value ELSE ChunkSize

\* int(response.headers.get('content-length', 0))
ContentLength(h) == IF h.present THEN h.value ELSE 0

Abs(n) == IF n < 0 THEN 0 - n ELSE n

Min(a, b) == IF a < b THEN a ELSE b

----------------------------------------------------------------------------
\* Decisions of download_file

\* line 300: the probe ended on a login page and the requested URL is none
IsExpired(finalLogin, requestedLogin) == finalLogin /\ ~requestedLogin

\* a login() that does not look for the failure markers of line 78
LoginIgnoresMarker(transportOk, markerPresent) ==
    IF ~transportOk THEN "error" ELSE "ok"

\* lines 82-87 of login(): "error" is a transport exception of its GET or
\* POST, "exit" is sys.exit(1), "ok" is return True
LoginResult(transportOk, markerPresent) ==
    IF ~transportOk THEN "error"
    ELSE IF markerPresent THEN "exit"
    ELSE "ok"

\* lines 71-78: the body of the response to the credentials, which the test
\* of line 78 reads; a failed request leaves the last one received
LoginBody(transportOk, markerPresent, last) ==
    IF ~transportOk THEN last
    ELSE IF markerPresent THEN "marker" ELSE "clean"

ExistingCheckedAnyForce(force, f) == f.exists /\ f.size > 0

\* line 344: the existing file is looked at
ExistingChecked(force, f) == ~force /\ f.exists /\ f.size > 0

SkipNoZero(force, f, h) ==
    /\ ExistingChecked(force, f)
    /\ Abs(f.size - ContentLength(h)) < Tolerance

SkipInclusive(force, f, h) ==
    /\ ExistingChecked(force, f)
    /\ \/ ContentLength(h) = 0
       \/ Abs(f.size - ContentLength(h)) <= Tolerance

\* lines 344-355: return full_path without writing
SkipExisting(force, f, h) ==
    /\ ExistingChecked(force, f)
    /\ \/ ContentLength(h) = 0
       \/ Abs(f.size - ContentLength(h)) < Tolerance

\* lines 361-366: "Skipping empty file", return None
SkipEmpty(h) == ContentLength(h) = 0

\* The places of download_file where an exception can be raised.
DownloadSites == {"head", "login", "recursion", "get", "makedirs", "open", "stream"}

TryWithoutProbe == DownloadSites \ {"head", "login"}

\* lines 291-386: the try block spans the whole body
DownloadTry == DownloadSites

----------------------------------------------------------------------------
\* download_file

\* An exception raised at `site`: the except clause of lines 384-386 logs
\* and returns None; outside the try block it leaves download_file.
\* A bare except clause, which the program has only at line 411, handles every
\* exception.
HandlesAll(exc) == TRUE

\* lines 384, 504, 666, 701, 741 and 810: "except Exception" handles the
\* exceptions derived from Exception; the SystemExit of sys.exit (line 84)
\* is not one of them.
Handles(exc) == exc = "Exception"

\* line 300: the only test for an expired session follows the HEAD request
\* of download_file; lines 404, 530, 542, 692 and 724 use their responses
\* without one.
ExpiryChecked(site) == site = "head"

\* What the current step records about the response it uses: the site whose
\* response came from the login page and was not tested for it.
Unchecked(site, finalLogin) ==
    IF finalLogin /\ ~ExpiryChecked(site) THEN site ELSE "none"

Raise(site) ==
    /\ errSite' = site
    /\ IF site \in DownloadTry
       THEN /\ pc' = "ret"
            /\ result' = "none"
            /\ outcome' = "error"
            /\ errCaught' = "download_file"
       ELSE /\ pc' = "raised"
            /\ result' = "none"
            /\ outcome' = "raised"
            /\ errCaught' = "none"

\* line 297 and the test of line 300
Probe ==
    /\ pc = "head"
    /\ \E ok \in BOOLEAN, finalLogin \in BOOLEAN :
         IF ~ok
         THEN /\ Raise("head")
              /\ UNCHANGED <<depth, logins, gets, resp, decision, pre, file>>
         ELSE /\ pc' = IF IsExpired(finalLogin, urlLogin) THEN "login" ELSE "get"
              /\ UNCHANGED <<depth, logins, gets, resp, decision, result, outcome,
                             pre, file, errSite, errCaught>>
    /\ UNCHANGED callerVars
    /\ UNCHANGED loginBody

\* lines 301-303: login(), then the recursive call
ReLogin ==
    /\ pc = "login"
    /\ logins' = logins + 1
    /\ \E transportOk \in BOOLEAN, markerPresent \in BOOLEAN :
         LET r == LoginResult(transportOk, markerPresent) IN
         /\ loginBody' = LoginBody(transportOk, markerPresent, loginBody)
         /\ CASE r = "error" ->
                   /\ Raise("login")
                   /\ UNCHANGED depth
              [] r = "exit" ->
                   \* SystemExit is not an Exception: line 384 does not catch it
                   IF Handles("SystemExit")
                   THEN /\ Raise("login")
                        /\ UNCHANGED depth
                   ELSE /\ pc' = "exited"
                        /\ outcome' = "exit"
                        /\ UNCHANGED <<depth, result, errSite, errCaught>>
              [] OTHER ->
                   IF depth < MaxDepth
                   THEN /\ depth' = depth + 1
                        /\ pc' = "head"
                        /\ UNCHANGED <<result, outcome, errSite, errCaught>>
                   ELSE /\ Raise("recursion")
                        /\ UNCHANGED depth
    /\ UNCHANGED <<gets, resp, decision, pre, file, callerVars>>

\* line 306
Get ==
    /\ pc = "get"
    /\ gets' = gets + 1
    /\ \E ok \in BOOLEAN, h \in Headers :
         IF ~ok
         THEN /\ Raise("get")
              /\ UNCHANGED resp
         ELSE /\ resp' = h
              /\ pc' = "check"
              /\ UNCHANGED <<result, outcome, errSite, errCaught>>
    /\ UNCHANGED <<depth, logins, decision, pre, file, callerVars>>
    /\ UNCHANGED loginBody

\* lines 337-366: the directory, the existing file, the empty response
Check ==
    /\ pc = "check"
    /\ \E ok \in BOOLEAN :
         IF ~ok
         THEN /\ Raise("makedirs")
              /\ UNCHANGED decision
         ELSE IF SkipExisting(force_download, file, resp)
         THEN /\ decision' = "skip"
              /\ pc' = "ret"
              /\ result' = "path"
              /\ outcome' = "skipped"
              /\ UNCHANGED <<errSite, errCaught>>
         ELSE IF SkipEmpty(resp)
         THEN /\ decision' = "empty"
              /\ pc' = "ret"
              /\ result' = "none"
              /\ outcome' = "empty"
              /\ UNCHANGED <<errSite, errCaught>>
         ELSE /\ decision' = "download"
              /\ pc' = "open"
              /\ UNCHANGED <<result, outcome, errSite, errCaught>>
    /\ UNCHANGED <<depth, logins, gets, resp, pre, file, callerVars>>
    /\ UNCHANGED loginBody

\* line 369: open(full_path, 'wb') truncates the file
Open ==
    /\ pc = "open"
    /\ \E ok \in BOOLEAN :
         IF ~ok
         THEN /\ Raise("open")
              /\ UNCHANGED file
         ELSE /\ file' = [exists |-> TRUE, size |-> 0, ver |-> calls + 1]
              /\ pc' = "stream"
              /\ UNCHANGED <<result, outcome, errSite, errCaught>>
    /\ UNCHANGED <<depth, logins, gets, resp, decision, pre, callerVars>>
    /\ UNCHANGED loginBody

\* lines 378-383: one chunk of the body, or the end of the body
Stream ==
    /\ pc = "stream"
    /\ LET total_size == ContentLength(resp) IN
       IF file.size = total_size
       THEN /\ pc' = "ret"
            /\ result' = "path"
            /\ outcome' = "written"
            /\ UNCHANGED <<file, errSite, errCaught>>
       ELSE \E ok \in BOOLEAN :
            IF ~ok
            THEN /\ Raise("stream")
                 /\ UNCHANGED file
            ELSE /\ file' = [file EXCEPT
                               !.size = @ + Min(ChunkSize, total_size - @)]
                 /\ UNCHANGED <<pc, result, outcome, errSite, errCaught>>
    /\ UNCHANGED <<depth, logins, gets, resp, decision, pre, callerVars>>
    /\ UNCHANGED loginBody

----------------------------------------------------------------------------
\* Calling download_file

\* download_file(url, path, filename) is entered; f is the file at full_path
StartCallOn(f, u) ==
    /\ pc' = "head"
    /\ depth' = 0
    /\ logins' = 0
    /\ gets' = 0
    /\ resp' = NoResp
    /\ decision' = "none"
    /\ result' = "none"
    /\ outcome' = "running"
    /\ pre' = f
    /\ file' = f
    /\ urlLogin' = u
    /\ errSite' = "none"
    /\ errCaught' = "none"

\* the frame of a finished call is gone
ResetCall ==
    /\ pc' = "idle"
    /\ depth' = 0
    /\ logins' = 0
    /\ gets' = 0
    /\ resp' = NoResp
    /\ decision' = "none"
    /\ result' = "none"
    /\ outcome' = "none"
    /\ pre' = NoFile
    /\ file' = NoFile
    /\ urlLogin' = FALSE

----------------------------------------------------------------------------
\* Consecutive calls on one target (two links to one file, or a second run)

NoCall == [outcome |-> "none", result |-> "none", gets |-> 0, logins |-> 0,
           resp |-> NoResp, post |-> NoFile]

\* lines 492-494: download_file(url, directory, name)
CallDownload ==
    /\ rpc = "none"
    /\ pc = "idle"
    /\ calls < MaxCalls
    /\ StartCallOn(file, urlLogin)
    /\ UNCHANGED <<force_download, seqVars, crawlVars, resVars>>
    /\ UNCHANGED <<sessVars, fnVars>>

\* lines 495-496: the caller has the result
Return ==
    /\ rpc = "none"
    /\ pc \in {"ret", "raised"}
    /\ calls' = calls + 1
    /\ prev' = [outcome |-> outcome, result |-> result, gets |-> gets,
                logins |-> logins, resp |-> resp, post |-> file]
    /\ pc' = "idle"
    /\ UNCHANGED <<depth, logins, gets, resp, decision, result, outcome, pre, file,
                   errSite, errCaught, argVars, crawlVars, resVars>>
    /\ UNCHANGED <<sessVars, fnVars>>

----------------------------------------------------------------------------
\* _process_resource_page

NoPage == [fetched |-> FALSE, dl |-> FALSE, emb |-> FALSE, scripts |-> 0,
           ext |-> FALSE, alt |-> FALSE, cmid |-> FALSE]

\* dl: an anchor of lines 549-552 with an href; emb: an embedded source with a
\* file marker (575); scripts: URLs the regular expressions of 586-587 match;
\* ext: an anchor ending in a known extension (610); alt: an anchor of the
\* selectors of 617 with an href; cmid: a course-module id (631-638)
Pages == [fetched : {TRUE}, dl : BOOLEAN, emb : BOOLEAN, scripts : 0..MaxMatches,
          ext : BOOLEAN, alt : BOOLEAN, cmid : BOOLEAN]

\* The number of candidate URLs strategy k finds (strategy 1 is the probe).
Candidates(k, pg, id) ==
    CASE k = 2 -> IF pg.dl THEN 1 ELSE 0
      [] k = 3 -> IF pg.emb THEN 1 ELSE 0
      [] k = 4 -> pg.scripts
      [] k = 5 -> IF id THEN 1 ELSE 0
      [] k = 6 -> IF pg.ext THEN 1 ELSE 0
      [] k = 7 -> IF pg.alt THEN 1 ELSE 0
      [] k = 8 -> IF pg.cmid /\ id THEN NumPatterns ELSE 0
      [] OTHER -> 0

\* Strategies that go on after a failed download (lines 595-597, 651-653:
\* "if result: return result"); the others return what download_file returned.
Retries(k) == k \in {4, 8}

\* The places of _process_resource_page where an exception can be raised.
ResolveSites == {"probe_get", "page_get", "debug_write"}

\* lines 509-670: the try block spans the whole body
ResolveTry == ResolveSites

ResetResolve ==
    /\ ppc' = "idle"
    /\ hasId' = FALSE
    /\ page' = NoPage
    /\ st' = 0
    /\ idx' = 0
    /\ evaluated' = {}
    /\ attempts' = <<>>
    /\ pageResult' = "none"
    /\ debug' = FALSE

\* An exception raised at `site` of _process_resource_page itself: the except
\* clause of lines 666-670 logs and returns None.
RaiseResolve(site) ==
    /\ errSite' = site
    /\ pageResult' = "none"
    /\ IF site \in ResolveTry
       THEN /\ ppc' = "ret"
            /\ errCaught' = "_process_resource_page"
       ELSE /\ ppc' = "raised"
            /\ errCaught' = "none"

\* What can be at the target path when a link of the crawl is downloaded.
CrawlFiles == {NoFile, OldFile(SmallLen)}

\* lines 525-539: the redirect probe
RedirectProbe ==
    /\ ppc = "probe"
    /\ pc = "idle"
    /\ evaluated' = evaluated \cup {1}
    /\ \E ok \in BOOLEAN, redirect \in BOOLEAN :
         IF ~ok
         THEN /\ RaiseResolve("probe_get")
              /\ UNCHANGED <<dlVars_noErr, urlLogin, attempts, parsedLogin>>
         ELSE IF redirect
         THEN /\ attempts' = Append(attempts, 1)
              \* line 532: the Location header is taken as the file URL
              /\ \E f \in CrawlFiles, u \in BOOLEAN :
                   /\ StartCallOn(f, u)
                   /\ parsedLogin' = Unchecked("probe", u)
              /\ UNCHANGED <<ppc, pageResult>>
         ELSE /\ ppc' = "fetch"
              /\ UNCHANGED <<dlVars, urlLogin, attempts, pageResult, parsedLogin>>
    /\ UNCHANGED <<force_download, seqVars, crawlVars, hasId, page, st, idx, debug>>
    /\ UNCHANGED <<loginBody, fnVars>>

\* lines 541-543: the resource page is fetched and parsed
FetchPage ==
    /\ ppc = "fetch"
    /\ \E ok \in BOOLEAN, pg \in Pages, finalLogin \in BOOLEAN :
         IF ~ok
         THEN /\ RaiseResolve("page_get")
              /\ UNCHANGED <<page, st, parsedLogin>>
         ELSE /\ parsedLogin' = Unchecked("resource_page", finalLogin)
              /\ page' = pg
              /\ st' = 2
              /\ ppc' = "chain"
              /\ UNCHANGED <<pageResult, errSite, errCaught>>
    /\ UNCHANGED <<dlVars_noErr, argVars, seqVars, crawlVars, hasId, idx, evaluated,
                   attempts, debug>>
    /\ UNCHANGED <<loginBody, fnVars>>

\* lines 548-653: strategy st is evaluated; its next candidate is passed to
\* download_file, or the chain moves on
Strategy ==
    /\ ppc = "chain"
    /\ pc = "idle"
    /\ evaluated' = evaluated \cup {st}
    /\ IF idx < Candidates(st, page, hasId)
       THEN /\ attempts' = Append(attempts, st)
            /\ idx' = idx + 1
            /\ \E f \in CrawlFiles, u \in BOOLEAN : StartCallOn(f, u)
            /\ UNCHANGED <<ppc, st>>
       ELSE /\ IF st = 8
               THEN ppc' = "dump" /\ UNCHANGED st
               ELSE st' = st + 1 /\ UNCHANGED ppc
            /\ idx' = 0
            /\ UNCHANGED <<dlVars, urlLogin, attempts>>
    /\ UNCHANGED <<force_download, seqVars, crawlVars, hasId, page, pageResult, debug>>
    /\ parsedLogin' = "none"
    /\ UNCHANGED <<loginBody, fnVars>>

\* lines 539, 562, 579, 595-597, 603, 614, 624, 651-653: download_file is back
AfterDownload ==
    /\ ppc \in {"probe", "chain"}
    /\ pc \in {"ret", "raised"}
    /\ IF pc = "raised"
       THEN /\ pageResult' = "none"
            /\ ppc' = "ret"
            /\ errCaught' = "_process_resource_page"
       ELSE /\ IF result = "path" \/ ~Retries(st)
               THEN pageResult' = result /\ ppc' = "ret"
               ELSE UNCHANGED <<pageResult, ppc>>
            /\ UNCHANGED errCaught
    /\ ResetCall
    /\ UNCHANGED <<errSite, force_download, seqVars, crawlVars, hasId, page, st,
                   idx, evaluated, attempts, debug>>
    /\ parsedLogin' = "none"
    /\ UNCHANGED <<loginBody, fnVars>>

\* lines 655-664: the page is saved for debugging and None is returned
Dump ==
    /\ ppc = "dump"
    /\ \E ok \in BOOLEAN :
         IF ~ok
         THEN /\ RaiseResolve("debug_write")
              /\ UNCHANGED debug
         ELSE /\ debug' = TRUE
              /\ pageResult' = "none"
              /\ ppc' = "ret"
              /\ UNCHANGED <<errSite, errCaught>>
    /\ UNCHANGED <<dlVars_noErr, argVars, seqVars, crawlVars, hasId, page, st, idx,
                   evaluated, attempts>>
    /\ parsedLogin' = "none"
    /\ UNCHANGED <<loginBody, fnVars>>

----------------------------------------------------------------------------
\* run(), process_course and the loops over the links of a section

Phases == {"resources", "folders", "assignments"}

\* the except clause of the loop body of the current phase (504, 701, 741)
LinkHandler ==
    CASE rpc = "resources" -> "_process_resources"
      [] rpc = "folders" -> "_process_folders"
      [] OTHER -> "_process_assignments"

\* An exception raised in run() or process_course, which have no try block:
\* it reaches the except clause of main (lines 810-811) and the run is over.
RaiseRun(site) ==
    /\ errSite' = site
    /\ errCaught' = "main"
    /\ rpc' = "aborted"

\* lines 749-753: the download directory, then login()
RunStart ==
    /\ rpc = "start"
    /\ \E dirOk \in BOOLEAN, transportOk \in BOOLEAN, markerPresent \in BOOLEAN :
         LET r == LoginResult(transportOk, markerPresent) IN
         IF ~dirOk
         THEN RaiseRun("download_dir") /\ UNCHANGED <<loggedIn, loginBody>>
         ELSE /\ loginBody' = LoginBody(transportOk, markerPresent, loginBody)
              /\ CASE r = "error" -> RaiseRun("run_login") /\ UNCHANGED loggedIn
                   [] r = "exit" ->
                        \* lines 806-811: main does not handle SystemExit
                        IF Handles("SystemExit")
                        THEN RaiseRun("run_login") /\ UNCHANGED loggedIn
                        ELSE /\ rpc' = "exited"
                             /\ UNCHANGED <<loggedIn, errSite, errCaught>>
                   [] OTHER -> /\ rpc' = "courses"
                               /\ loggedIn' = TRUE
                               /\ UNCHANGED <<errSite, errCaught>>
    /\ UNCHANGED <<dlVars_noErr, argVars, seqVars, nsel, ci, reached, nsec, si, left,
                   sub, resVars>>
    /\ UNCHANGED <<parsedLogin, fnVars>>

\* lines 755-777: the courses found and the user's selection among them
GetCourses ==
    /\ rpc = "courses"
    /\ \E n \in 0..NumCourses :
         /\ nsel' = n
         /\ ci' = 1
         /\ rpc' = "course"
    /\ UNCHANGED <<dlVars, argVars, seqVars, reached, loggedIn, nsec, si, left, sub,
                   resVars>>
    /\ parsedLogin' = "none"
    /\ UNCHANGED <<loginBody, fnVars>>

\* lines 780-781 and 395-401: the next selected course, its directory
CourseDir ==
    /\ rpc = "course"
    /\ IF ci > nsel
       THEN /\ rpc' = "done"
            /\ UNCHANGED <<reached, errSite, errCaught>>
       ELSE /\ reached' = reached \cup {ci}
            /\ \E ok \in BOOLEAN :
                 IF ~ok
                 THEN RaiseRun("course_makedirs")
                 ELSE rpc' = "page" /\ UNCHANGED <<errSite, errCaught>>
    /\ UNCHANGED <<dlVars_noErr, argVars, seqVars, nsel, ci, loggedIn, nsec, si, left,
                   sub, resVars>>
    /\ parsedLogin' = "none"
    /\ UNCHANGED <<loginBody, fnVars>>

\* lines 403-422: the course page and its sections (at least "Main Content")
CoursePage ==
    /\ rpc = "page"
    /\ \E ok \in BOOLEAN, n \in 1..MaxSections, finalLogin \in BOOLEAN :
         IF ~ok
         THEN RaiseRun("course_page") /\ UNCHANGED <<nsec, si, parsedLogin>>
         ELSE /\ parsedLogin' = Unchecked("course_page", finalLogin)
              /\ nsec' = n
              /\ si' = 1
              /\ rpc' = "section"
              /\ UNCHANGED <<errSite, errCaught>>
    /\ UNCHANGED <<dlVars_noErr, argVars, seqVars, nsel, ci, reached, loggedIn, left,
                   sub, resVars>>
    /\ UNCHANGED <<loginBody, fnVars>>

\* lines 425-438 and 442: the next section and its directory, or the end of
\* the course
SectionDir ==
    /\ rpc = "section"
    /\ IF si > nsec
       THEN /\ ci' = ci + 1
            /\ nsec' = 0
            /\ si' = 0
            /\ rpc' = "course"
            /\ UNCHANGED <<left, errSite, errCaught>>
       ELSE /\ \E ok \in BOOLEAN, n \in 0..MaxLinks :
                 IF ~ok
                 THEN RaiseRun("section_makedirs") /\ UNCHANGED left
                 ELSE /\ rpc' = "resources"
                      /\ left' = n
                      /\ UNCHANGED <<errSite, errCaught>>
            /\ UNCHANGED <<ci, nsec, si>>
    /\ UNCHANGED <<dlVars_noErr, argVars, seqVars, nsel, reached, loggedIn, sub,
                   resVars>>
    /\ parsedLogin' = "none"
    /\ UNCHANGED <<loginBody, fnVars>>

\* lines 481-499: one resource link: skipped (487), a direct file (493), or a
\* resource page (498)
ResourceLink ==
    /\ rpc = "resources"
    /\ left > 0
    /\ pc = "idle"
    /\ ppc = "idle"
    /\ \E kind \in {"skip", "pluginfile", "resource"} :
         CASE kind = "skip" ->
                /\ left' = left - 1
                /\ errSite' = "none"
                /\ errCaught' = "none"
                /\ UNCHANGED <<dlVars_noErr, urlLogin, resVars>>
           [] kind = "pluginfile" ->
                /\ \E f \in CrawlFiles, u \in BOOLEAN : StartCallOn(f, u)
                /\ UNCHANGED <<left, resVars>>
           [] OTHER ->
                /\ \E id \in BOOLEAN :
                     /\ hasId' = id
                     /\ ppc' = IF id THEN "probe" ELSE "fetch"
                /\ st' = 1
                /\ errSite' = "none"
                /\ errCaught' = "none"
                /\ UNCHANGED <<dlVars_noErr, urlLogin, left, page, idx, evaluated,
                               attempts, pageResult, debug>>
    /\ UNCHANGED <<force_download, seqVars, rpc, nsel, ci, reached, loggedIn, nsec,
                   si, sub>>
    /\ parsedLogin' = "none"
    /\ UNCHANGED <<loginBody, fnVars>>

\* lines 499-503: _process_resource_page is back
ResolveReturn ==
    /\ rpc = "resources"
    /\ ppc \in {"ret", "raised"}
    /\ left' = left - 1
    /\ errCaught' = IF ppc = "raised" THEN LinkHandler ELSE errCaught
    /\ ResetResolve
    /\ UNCHANGED <<dlVars_noErr, errSite, argVars, seqVars, rpc, nsel, ci, reached,
                   loggedIn, nsec, si, sub>>
    /\ parsedLogin' = "none"
    /\ UNCHANGED <<loginBody, fnVars>>

\* lines 677-693 and 709-733: one folder or assignment link: its directory,
\* its page, the description file of an assignment
OpenContainer ==
    /\ rpc \in {"folders", "assignments"}
    /\ left > 0
    /\ sub = 0
    /\ pc = "idle"
    /\ \E ok \in BOOLEAN, n \in 0..MaxFiles, finalLogin \in BOOLEAN :
         IF ~ok
         THEN /\ errSite' = "container"
              /\ errCaught' = LinkHandler
              /\ left' = left - 1
              /\ UNCHANGED <<sub, parsedLogin>>
         ELSE /\ parsedLogin' = Unchecked("container_page", finalLogin)
              /\ errSite' = "none"
              /\ errCaught' = "none"
              /\ sub' = n
              /\ left' = IF n = 0 THEN left - 1 ELSE left
    /\ UNCHANGED <<dlVars_noErr, argVars, seqVars, rpc, nsel, ci, reached, loggedIn,
                   nsec, si, resVars>>
    /\ UNCHANGED <<loginBody, fnVars>>

\* lines 696-700 and 736-740: one file link of the folder or assignment page
ContainerFile ==
    /\ rpc \in {"folders", "assignments"}
    /\ sub > 0
    /\ pc = "idle"
    /\ \E f \in CrawlFiles, u \in BOOLEAN : StartCallOn(f, u)
    /\ UNCHANGED <<force_download, seqVars, crawlVars, resVars>>
    /\ parsedLogin' = "none"
    /\ UNCHANGED <<loginBody, fnVars>>

\* lines 494-496, 700, 740: download_file, called from a loop over links, is
\* back; an exception it let through ends the loop body (504, 701, 741)
LinkReturn ==
    /\ rpc \in Phases
    /\ ppc = "idle"
    /\ pc \in {"ret", "raised"}
    /\ errCaught' = IF pc = "raised" THEN LinkHandler ELSE errCaught
    /\ IF rpc = "resources"
       THEN left' = left - 1 /\ UNCHANGED sub
       ELSE /\ sub' = IF pc = "raised" THEN 0 ELSE sub - 1
            /\ left' = IF sub' = 0 THEN left - 1 ELSE left
    /\ ResetCall
    /\ UNCHANGED <<errSite, force_download, seqVars, rpc, nsel, ci, reached,
                   loggedIn, nsec, si, resVars>>
    /\ parsedLogin' = "none"
    /\ UNCHANGED <<loginBody, fnVars>>

\* lines 438-440: the three loops of a section in turn, then the next section
NextPhase ==
    /\ rpc \in Phases
    /\ left = 0
    /\ sub = 0
    /\ pc = "idle"
    /\ ppc = "idle"
    /\ IF rpc = "assignments"
       THEN /\ rpc' = "section"
            /\ si' = si + 1
            /\ UNCHANGED left
       ELSE /\ rpc' = IF rpc = "resources" THEN "folders" ELSE "assignments"
            /\ \E n \in 0..MaxFolders : left' = n
            /\ UNCHANGED si
    /\ UNCHANGED <<dlVars, argVars, seqVars, nsel, ci, reached, loggedIn, nsec, sub,
                   resVars>>
    /\ parsedLogin' = "none"
    /\ UNCHANGED <<loginBody, fnVars>>

----------------------------------------------------------------------------
\* Specifications

CallIdle ==
    /\ pc = "idle"
    /\ depth = 0
    /\ logins = 0
    /\ gets = 0
    /\ resp = NoResp
    /\ decision = "none"
    /\ result = "none"
    /\ outcome = "none"
    /\ errSite = "none"
    /\ errCaught = "none"
    /\ calls = 0
    /\ prev = NoCall

CrawlIdle ==
    /\ nsel = 0
    /\ ci = 0
    /\ reached = {}
    /\ loggedIn = FALSE
    /\ nsec = 0
    /\ si = 0
    /\ left = 0
    /\ sub = 0
    /\ ppc = "idle"
    /\ hasId = FALSE
    /\ page = NoPage
    /\ st = 0
    /\ idx = 0
    /\ evaluated = {}
    /\ attempts = <<>>
    /\ pageResult = "none"
    /\ debug = FALSE
    /\ loginBody = "none"
    /\ parsedLogin = "none"

\* no function is called on its own
FnIdle ==
    /\ fnPc = "none"
    /\ fnArg = <<>>
    /\ fnRet = <<>>

\* download_file is called MaxCalls times with one URL, directory and name
Init ==
    /\ CallIdle
    /\ CrawlIdle
    /\ FnIdle
    /\ rpc = "none"
    /\ file \in InitFiles
    /\ pre = file
    /\ force_download \in BOOLEAN
    /\ urlLogin \in BOOLEAN

Download == Probe \/ ReLogin \/ Get \/ Check \/ Open \/ Stream

Next ==
    \/ CallDownload
    \/ Download
    \/ Return

Spec == Init /\ [][Next]_vars

\* main(): a MoodleDownloader is constructed and run() is called
InitCrawl ==
    /\ CallIdle
    /\ CrawlIdle
    /\ FnIdle
    /\ rpc = "start"
    /\ file = NoFile
    /\ pre = NoFile
    /\ force_download \in BOOLEAN
    /\ urlLogin = FALSE

NextCrawl ==
    \/ RunStart
    \/ GetCourses
    \/ CourseDir
    \/ CoursePage
    \/ SectionDir
    \/ ResourceLink
    \/ ResolveReturn
    \/ OpenContainer
    \/ ContainerFile
    \/ LinkReturn
    \/ NextPhase
    \/ RedirectProbe
    \/ FetchPage
    \/ Strategy
    \/ AfterDownload
    \/ Dump
    \/ Download

SpecCrawl == InitCrawl /\ [][NextCrawl]_vars

----------------------------------------------------------------------------
\* Properties

\* C1: one top-level download_file call whose URL holds no login marker
\* invokes login() at most once, however the server answers.
C1_LoginAtMostOnce == ~urlLogin => logins <= 1

\* C2: once a strategy has yielded a candidate URL (it was passed to
\* download_file), no strategy with a higher number is evaluated.
C2_ShortCircuit ==
    \A i \in 1..Len(attempts) : \A k \in evaluated : k <= attempts[i]

\* C3: a candidate of one of the strategies 1 to 7 whose download returned
\* None is the last candidate tried for the resource: no second candidate,
\* of the same or of a later strategy, is passed to download_file.
C3_FailedDownloadFinal ==
    \A i \in 1..Len(attempts) : attempts[i] \in 1..7 => i = 1

\* C4: two calls with the same URL, directory and name, force unset, the
\* second response reporting the nonzero size of the file the first call
\* wrote: at most one streaming GET over both calls, the second call returns
\* the path and leaves the file as it was (no exception in the second call).
C4_GetAtMostOnce ==
    ( /\ pc = "ret"
      /\ calls = 1
      /\ ~force_download
      /\ prev.outcome = "written"
      /\ resp.got
      /\ ContentLength(resp) # 0
      /\ ContentLength(resp) = prev.post.size
      /\ outcome # "error" )
    => /\ prev.gets + gets <= 1
       /\ result = "path"
       /\ file = prev.post

\* C5: force unset, an existing file of nonzero size and a nonzero reported
\* length L: the call skips (returns the path, file untouched) exactly when
\* the sizes differ by at most 99, and downloads again, overwriting the file
\* with the L bytes of the body, exactly when they differ by 100 or more.
C5_ToleranceBoundary ==
    ( /\ decision # "none"
      /\ ~force_download
      /\ pre.exists
      /\ pre.size > 0
      /\ ContentLength(resp) # 0 )
    => LET L == ContentLength(resp)
           d == Abs(pre.size - L)
       IN  /\ d <= 99 => /\ decision = "skip"
                         /\ result = "path"
                         /\ file = pre
           /\ d >= 100 => /\ decision = "download"
                          /\ pc = "stream" => file.ver = calls + 1
                          /\ (pc = "ret" /\ outcome = "written")
                                => /\ result = "path"
                                   /\ file = [exists |-> TRUE, size |-> L,
                                              ver |-> calls + 1]

\* C5 witness: the existing file is exactly 100 bytes larger than the
\* reported length and has been overwritten.
C5_Witness ==
    /\ ~force_download
    /\ pre.exists
    /\ pre.size - ContentLength(resp) = 100
    /\ decision = "download"
    /\ pc = "ret"
    /\ outcome = "written"
    /\ file.size = ContentLength(resp)

\* C6 as stated: a reported content length of zero makes download_file
\* return None and leave the target path alone, whatever is on disk and
\* whatever the force flag.
C6_ZeroAlwaysNone ==
    (pc = "ret" /\ resp.got /\ resp.present /\ resp.value = 0)
    => /\ result = "none"
       /\ file = pre
       /\ outcome # "raised"

\* C6 as amended: a reported content length of zero never writes to the
\* target path and raises no error; the call returns the existing path when
\* force is unset and a file of nonzero size exists there, and None otherwise
\* (also when the directory cannot be created).
C6_ZeroLength ==
    (pc = "ret" /\ resp.got /\ resp.present /\ resp.value = 0)
    => /\ file = pre
       /\ outcome \in {"skipped", "empty", "error"}
       /\ IF outcome = "error"
          THEN result = "none"
          ELSE result = "path" <=> (~force_download /\ pre.exists /\ pre.size > 0)

\* C6 witness: zero reported, an existing file, force unset, the path returned.
C6_Witness ==
    /\ pc = "ret"
    /\ resp.got /\ resp.present /\ resp.value = 0
    /\ ~force_download
    /\ pre.exists /\ pre.size > 0
    /\ result = "path"

\* C7: with the force flag set no call ends as skip-existing; a nonzero
\* reported length always leads to the download, which replaces what was at
\* the target path by the body of this call.
C7_ForceNeverSkips ==
    force_download
    => /\ decision # "skip"
       /\ outcome # "skipped"
       /\ (decision # "none" /\ ContentLength(resp) # 0) => decision = "download"
       /\ (pc = "ret" /\ outcome = "written")
             => file = [exists |-> TRUE, size |-> ContentLength(resp),
                        ver |-> calls + 1]

\* C7 witness: force set, an existing file of exactly the reported size, and
\* the file has been written again.
C7_Witness ==
    /\ force_download
    /\ pre.exists
    /\ pre.size = ContentLength(resp)
    /\ pc = "ret"
    /\ outcome = "written"
    /\ file.ver # pre.ver

\* C8: an exception raised inside download_file is caught by download_file,
\* one raised inside _process_resource_page by _process_resource_page; the
\* call returns None, nothing propagates to the caller and the run is not
\* aborted by it.
C8_ErrorsCaught ==
    /\ pc # "raised"
    /\ ppc # "raised"
    /\ errSite \in DownloadSites
          => /\ errCaught = "download_file"
             /\ pc = "ret" => result = "none"
             /\ rpc # "aborted"
    /\ errSite \in ResolveSites
          => /\ errCaught = "_process_resource_page"
             /\ ppc = "ret" => pageResult = "none"
             /\ rpc # "aborted"

\* C8 witness: the body of a resource link's download failed while it was
\* streamed, and the crawl has gone on to the folders of the section.
C8_Witness ==
    /\ errSite = "stream"
    /\ errCaught = "download_file"
    /\ rpc = "folders"
    /\ left > 0
    /\ pc = "idle"

\* C9: once login has succeeded, a run that has ended has called
\* process_course for every selected course.
C9_AllCoursesReached ==
    (loggedIn /\ rpc \in {"done", "aborted"}) => reached = 1..nsel

\* C10: when _process_resource_page returns None for a fetched page without
\* any exception having been raised, the debug file has been written.
C10_DebugDumpOnFailure ==
    (ppc = "ret" /\ pageResult = "none" /\ page.fetched /\ errSite = "none")
    => debug

\* the process has terminated through sys.exit(1) (line 84)
Exited == pc = "exited" \/ rpc = "exited"

\* C11: login() returns True exactly when the body of the response to the
\* credentials holds none of the failure markers; when it holds one the
\* process terminates, which no handler of download_file or of main undoes,
\* and no step (no request, no file write) follows the termination; this
\* holds for the login of run() and for the one inside download_file.
C11_LoginExitsOnMarker ==
    [][ /\ (loginBody' = "marker") = Exited'
        /\ Exited => UNCHANGED vars
        /\ (rpc = "start" /\ rpc' # "start")
              => (loggedIn' = (loginBody' = "clean"))
        /\ (pc = "login" /\ errSite' # "login")
              => ((loginBody' = "clean")
                    = (pc' = "head" \/ errSite' = "recursion")) ]_vars

\* the login of run() succeeded and a later one inside download_file failed
C11_Witness ==
    /\ loggedIn
    /\ pc = "exited"
    /\ loginBody = "marker"
    /\ logins = 1

\* C20: after login, every response that came from the login page although
\* the requested URL holds no login marker (course, resource, folder and
\* assignment pages, the redirect probe) leads to re-authentication before
\* its body is used: no step uses such a response untested.
C20_ExpiryDetectedEverywhere == parsedLogin = "none"

----------------------------------------------------------------------------
\* Text: a str is a sequence of one-character strings

\* s[i:j] of Python for 1-based inclusive positions: cut at the end of s,
\* empty when nothing is left
Slice(s, i, j) ==
    IF i > Min(j, Len(s)) THEN <<>> ELSE SubSeq(s, i, Min(j, Len(s)))

\* part in s
Contains(s, part) ==
    \E i \in 1..(Len(s) - Len(part) + 1) :
        \A j \in 1..Len(part) : s[i + j - 1] = part[j]

\* the positions of s that hold a character of chars, and those that do not
Positions(s, chars) == {i \in 1..Len(s) : s[i] \in chars}
Others(s, chars) == {i \in 1..Len(s) : s[i] \notin chars}

\* the largest and the smallest element of a nonempty set of numbers
Largest(S) == CHOOSE i \in S : \A j \in S : j <= i
Smallest(S) == CHOOSE i \in S : \A j \in S : i <= j

\* s.strip(chars): the characters of chars are removed from both ends
Strip(s, chars) ==
    LET keep == Others(s, chars) IN
    IF keep = {} THEN <<>> ELSE Slice(s, Smallest(keep), Largest(keep))

----------------------------------------------------------------------------
\* sanitize_filename (lines 388-393)

\* line 393: the length names are cut to
NameCap == 100

\* line 391: the characters of the class [\\/*?:"<>|]
Illegal == {"\\", "/", "*", "?", ":", "\"", "<", ">", "|"}

\* line 391: re.sub replaces each of them by an underscore
ReplaceIllegal(s) == [i \in 1..Len(s) |-> IF s[i] \in Illegal THEN "_" ELSE s[i]]

\* line 393: s.strip(". ")[0:100], the strip first and the cut second
sanitize_filename(filename) ==
    Slice(Strip(ReplaceIllegal(filename), {".", " "}), 1, NameCap)

\* What section 3 of the specification calls a sanitized segment.
Sanitary(seg) ==
    /\ \A i \in 1..Len(seg) : seg[i] \notin Illegal
    /\ Len(seg) <= NameCap
    /\ seg # <<>> => seg[1] \notin {".", " "} /\ seg[Len(seg)] \notin {".", " "}
    /\ seg # <<".", ".">>

\* Names a portal can show: a run of letters between a short head and a short
\* tail of letters, dots, spaces and separators.
MaxTail == 3
Pad(n) == [i \in 1..n |-> "a"]
Filenames ==
    LET chars == {"a", ".", " ", "/"}
        Tails(n) == UNION {[1..k -> chars] : k \in 0..n}
        lens == {0, NameCap - 2, NameCap - 1, NameCap}
    IN  {h \o Pad(n) \o t : h \in Tails(1), n \in lens, t \in Tails(MaxTail)}

\* everything but the function called is at rest
Rest ==
    /\ CallIdle
    /\ CrawlIdle
    /\ rpc = "none"
    /\ file = NoFile
    /\ pre = NoFile
    /\ force_download = FALSE
    /\ urlLogin = FALSE

RestVars == <<dlVars, argVars, seqVars, crawlVars, resVars, sessVars>>

InitSanitize ==
    /\ Rest
    /\ fnPc = "sanitize_filename"
    /\ fnArg \in Filenames
    /\ fnRet = <<>>

\* lines 388-393: one call
Sanitize ==
    /\ fnPc = "sanitize_filename"
    /\ fnRet' = sanitize_filename(fnArg)
    /\ fnPc' = "sanitized"
    /\ UNCHANGED <<fnArg, RestVars>>

SpecSanitize == InitSanitize /\ [][Sanitize]_vars

\* C12: for every input, the result of sanitize_filename holds none of the
\* characters \ / * ? : " < > | (each was replaced by an underscore, the other
\* characters are those of the input), is at most 100 characters long and
\* neither starts nor ends with a dot or a space.
C12_SanitizedName ==
    fnPc = "sanitized" =>
        /\ Len(fnRet) <= NameCap
        /\ \A i \in 1..Len(fnRet) : fnRet[i] \notin Illegal
        /\ fnRet # <<>> =>
             /\ fnRet[1] \notin {".", " "}
             /\ fnRet[Len(fnRet)] \notin {".", " "}

----------------------------------------------------------------------------
\* The paths the crawl creates below download_dir, as sequences of segments

\* os.path.join(path, segment): an empty segment names the directory itself
Join(path, seg) == IF seg = <<>> THEN path ELSE Append(path, seg)

\* line 658: the fixed suffix of the debug file
DebugSuffix == <<"_", "d", "e", "b", "u", "g", ".", "h", "t", "m", "l">>

\* line 658: name or 'resource'
OrResource(name) ==
    IF name = <<>> THEN <<"r", "e", "s", "o", "u", "r", "c", "e">> ELSE name

\* line 733: the fixed name of the description file
Description == <<"d", "e", "s", "c", "r", "i", "p", "t", "i", "o", "n", ".", "t", "x", "t">>

\* Names of courses, sections, links and files as a portal can show them:
\* short or long, with parent-directory parts and with a dot at the cut.
PathNames ==
    {h \o Pad(n) \o t : h \in {<<>>, <<".", ".", "/">>}, n \in {1, NameCap - 1},
                        t \in {<<>>, <<".", "a">>}}
      \cup {<<".", ".">>}

InitPaths ==
    /\ Rest
    /\ fnPc = "course_dir"
    /\ fnArg = <<>>
    /\ fnRet = <<>>

\* lines 400-401: the course directory
MakeCourseDir ==
    /\ fnPc = "course_dir"
    /\ \E name \in PathNames :
         /\ fnArg' = name
         /\ fnRet' = Join(<<>>, sanitize_filename(name))
    /\ fnPc' = "section_dir"
    /\ UNCHANGED RestVars

\* lines 434-435: a section directory
MakeSectionDir ==
    /\ fnPc = "section_dir"
    /\ \E name \in PathNames :
         /\ fnArg' = name
         /\ fnRet' = Join(fnRet, sanitize_filename(name))
    /\ fnPc' = "item"
    /\ UNCHANGED RestVars

\* What a link of a section creates in the section directory: a downloaded
\* file (338-369), the debug file of a resource (658-659), the directory of
\* a folder (688-689) or of an assignment (718-719)
MakeItem ==
    /\ fnPc = "item"
    /\ \E name \in PathNames, kind \in {"file", "debug", "container"} :
         /\ fnArg' = name
         /\ fnRet' = IF kind = "debug"
                     THEN Join(fnRet, sanitize_filename(OrResource(name)) \o DebugSuffix)
                     ELSE Join(fnRet, sanitize_filename(name))
         /\ fnPc' = IF kind = "container" THEN "contained" ELSE "done"
    /\ UNCHANGED RestVars

\* What is written into the directory of a folder or assignment: a
\* downloaded file (700, 740 and 338-369) or the description (733)
MakeContained ==
    /\ fnPc = "contained"
    /\ \/ \E name \in PathNames :
            /\ fnArg' = name
            /\ fnRet' = Join(fnRet, sanitize_filename(name))
       \/ /\ fnArg' = <<>>
          /\ fnRet' = Join(fnRet, Description)
    /\ fnPc' = "done"
    /\ UNCHANGED RestVars

NextPaths == MakeCourseDir \/ MakeSectionDir \/ MakeItem \/ MakeContained

SpecPaths == InitPaths /\ [][NextPaths]_vars

\* C13: every directory created and every file written lies under
\* download_dir, and every segment of its path below download_dir is a
\* sanitized segment: none of the illegal characters, at most 100
\* characters, no dot or space at either end, never "..".
C13_PathsSanitized ==
    fnPc \in {"section_dir", "item", "contained", "done"} =>
        \A i \in 1..Len(fnRet) : Sanitary(fnRet[i])

----------------------------------------------------------------------------
\* get_file_extension (lines 157-287)

\* line 171: the longest extension taken from the path of a URL
MaxExtLen == 10

\* os.path.splitext(p)[1]: from the last dot of the last component on, unless
\* only dots precede it there
SplitExt(p) ==
    LET seps == Positions(p, {"/"})
        dots == Positions(p, {"."})
        sepIdx == IF seps = {} THEN 0 ELSE Largest(seps)
        dotIdx == IF dots = {} THEN 0 ELSE Largest(dots)
    IN  IF dotIdx > sepIdx /\ \E i \in (sepIdx + 1)..(dotIdx - 1) : p[i] # "."
        THEN Slice(p, dotIdx, Len(p))
        ELSE <<>>

\* os.path.basename(p): what follows the last separator
Basename(p) ==
    LET seps == Positions(p, {"/"}) IN
    IF seps = {} THEN p ELSE Slice(p, Largest(seps) + 1, Len(p))

\* urlparse(url).path for a URL with the scheme http or with none: what
\* follows the host, up to the query or fragment
UrlPath(url) ==
    LET scheme == <<"h", "t", "t", "p", ":", "/", "/">>
        rest == IF Slice(url, 1, Len(scheme)) = scheme
                THEN LET r == Slice(url, Len(scheme) + 1, Len(url))
                         stop == Positions(r, {"/", "?", "#"})
                     IN  IF stop = {} THEN <<>> ELSE Slice(r, Smallest(stop), Len(r))
                ELSE url
        cut == Positions(rest, {"?", "#"})
    IN  IF cut = {} THEN rest ELSE Slice(rest, 1, Smallest(cut) - 1)

\* str.lower() on the capitals the texts of the model hold
Lower(s) ==
    [i \in 1..Len(s) |->
        CASE s[i] = "P" -> "p" [] s[i] = "D" -> "d" [] s[i] = "F" -> "f"
          [] s[i] = "K" -> "k" [] s[i] = "A" -> "a" [] s[i] = "L" -> "l"
          [] OTHER -> s[i]]

Digits == {"0", "1", "2", "3", "4", "5", "6", "7", "8", "9"}

\* lines 182 and 186: re.search(key + r'=(\d+)', url)
HasParam(url, key) ==
    \E i \in 1..Len(url) :
        /\ Slice(url, i, i + Len(key)) = key \o <<"=">>
        /\ i + Len(key) + 1 <= Len(url)
        /\ url[i + Len(key) + 1] \in Digits

\* line 176: the value of the header up to the first ";", without the blanks
\* around it
MediaType(value) ==
    LET semi == Positions(value, {";"}) IN
    Strip(IF semi = {} THEN value ELSE Slice(value, 1, Smallest(semi) - 1), {" "})

\* line 177: mimetypes.guess_extension of the standard library, for the media
\* types of the model; None (here the empty string) for a type it does not know
ApplicationPdf ==
    <<"a", "p", "p", "l", "i", "c", "a", "t", "i", "o", "n", "/", "p", "d", "f">>
TextPlain == <<"t", "e", "x", "t", "/", "p", "l", "a", "i", "n">>
GuessExtension(type) ==
    CASE type = ApplicationPdf -> <<".", "p", "d", "f">>
      [] type = TextPlain -> <<".", "t", "x", "t">>
      [] OTHER -> <<>>

\* lines 191-279: the keys of common_formats in the order of the dictionary;
\* the extension of a key is the key after a dot
FormatNames ==
    <<<<"p", "d", "f">>, <<"d", "o", "c", "x">>, <<"d", "o", "c">>,
      <<"p", "p", "t", "x">>, <<"p", "p", "t">>, <<"x", "l", "s", "x">>,
      <<"x", "l", "s">>, <<"t", "x", "t">>, <<"r", "t", "f">>,
      <<"o", "d", "t">>, <<"o", "d", "s">>, <<"o", "d", "p">>,
      <<"j", "p", "g">>, <<"j", "p", "e", "g">>, <<"p", "n", "g">>,
      <<"g", "i", "f">>, <<"s", "v", "g">>, <<"b", "m", "p">>,
      <<"t", "i", "f", "f">>, <<"t", "i", "f">>, <<"m", "p", "3">>,
      <<"w", "a", "v">>, <<"a", "a", "c">>, <<"f", "l", "a", "c">>,
      <<"o", "g", "g">>, <<"m", "4", "a">>, <<"m", "p", "4">>,
      <<"m", "o", "v">>, <<"a", "v", "i">>, <<"w", "m", "v">>,
      <<"w", "e", "b", "m">>, <<"m", "k", "v">>, <<"f", "l", "v">>,
      <<"m", "4", "v">>, <<"z", "i", "p">>, <<"r", "a", "r">>, <<"7", "z">>,
      <<"t", "a", "r">>, <<"g", "z">>, <<"t", "g", "z">>, <<"p", "y">>,
      <<"j", "a", "v", "a">>, <<"h", "t", "m", "l">>, <<"h", "t", "m">>,
      <<"c", "s", "s">>, <<"j", "s">>, <<"p", "h", "p">>, <<"s", "q", "l">>,
      <<"r">>, <<"m">>, <<"c">>, <<"c", "p", "p">>, <<"h">>,
      <<"i", "p", "y", "n", "b">>, <<"t", "e", "x">>, <<"e", "p", "u", "b">>,
      <<"m", "o", "b", "i">>, <<"s", "r", "t">>, <<"v", "t", "t">>,
      <<"x", "m", "l">>, <<"j", "s", "o", "n">>, <<"c", "s", "v">>,
      <<"m", "m">>, <<"x", "m", "i", "n", "d">>, <<"h", "5", "p">>,
      <<"p", "s", "d">>, <<"a", "i">>, <<"d", "w", "g">>, <<"d", "x", "f">>,
      <<"m", "u", "s">>, <<"s", "i", "b">>, <<"c", "d", "x">>,
      <<"g", "g", "b">>>>

\* response_headers is None, or a dictionary that holds the key Content-Type
\* or does not
NoHeaders == [given |-> FALSE, present |-> FALSE, ctype |-> <<>>]

\* lines 160-163: the extension of the original filename (None and "" are
\* both the empty string here)
OriginalExt(original_filename) == SplitExt(original_filename)

\* lines 166-172: the extension of the path of the URL, if short enough (no
\* URL of the model holds a percent escape for unquote to decode)
UrlPathExt(url) ==
    LET ext == SplitExt(Basename(UrlPath(url))) IN
    IF ext # <<>> /\ Len(ext) <= MaxExtLen THEN ext ELSE <<>>

\* A resolver whose table of media types knows none.
NoMimeExt(response_headers) == <<>>

\* lines 175-179: the extension of the media type of the response
MimeExt(response_headers) ==
    IF response_headers.given /\ response_headers.present
    THEN GuessExtension(MediaType(response_headers.ctype))
    ELSE <<>>

\* lines 182-188: pdf=<digits> first, doc=<digits> second
PatternExt(url) ==
    IF HasParam(url, <<"p", "d", "f">>) THEN <<".", "p", "d", "f">>
    ELSE IF HasParam(url, <<"d", "o", "c">>) THEN <<".", "d", "o", "c">>
    ELSE <<>>

\* lines 281-283: the first key of the table that the lowered URL holds
TableExt(url) ==
    LET lowered == Lower(url)
        hits == {k \in 1..Len(FormatNames) : Contains(lowered, FormatNames[k])}
    IN  IF hits = {} THEN <<>> ELSE <<".">> \o FormatNames[Smallest(hits)]

\* line 286
DefaultExt == <<".", "b", "i", "n">>

\* A resolver that asks the media type before the path of the URL.
ExtensionMimeFirst(url, response_headers, original_filename) ==
    LET original == OriginalExt(original_filename)
        urlExt == UrlPathExt(url)
        mime == MimeExt(response_headers)
        pattern == PatternExt(url)
        format == TableExt(url)
    IN  IF original # <<>> THEN original
        ELSE IF mime # <<>> THEN mime
        ELSE IF urlExt # <<>> THEN urlExt
        ELSE IF pattern # <<>> THEN pattern
        ELSE IF format # <<>> THEN format
        ELSE DefaultExt

\* lines 157-287: each return statement in the order of the code
get_file_extension(url, response_headers, original_filename) ==
    LET original == OriginalExt(original_filename)
        urlExt == UrlPathExt(url)
        mime == MimeExt(response_headers)
        pattern == PatternExt(url)
        format == TableExt(url)
    IN  IF original # <<>> THEN original
        ELSE IF urlExt # <<>> THEN urlExt
        ELSE IF mime # <<>> THEN mime
        ELSE IF pattern # <<>> THEN pattern
        ELSE IF format # <<>> THEN format
        ELSE DefaultExt

\* The URLs of the model: with and without a host, a last component with no
\* extension, a short, a bare, a hidden, a long and a capital one, and a query
\* with the patterns of lines 182 and 186 or a key of the table.
Urls ==
    LET hosts == {<<>>, <<"h", "t", "t", "p", ":", "/", "/", "h">>}
        paths == {<<"/", "k">>, <<"/", "k", ".", "p", "h", "p">>, <<"/", "k", ".">>,
                  <<"/", ".", "k">>,
                  <<"/", "k", ".", "k", "k", "k", "k", "k", "k", "k", "k", "k", "k", "k">>,
                  <<"/", "K", ".", "P", "D", "F">>}
        queries == {<<>>, <<"?", "d", "o", "c", "=", "1">>, <<"?", "p", "d", "f", "=", "2">>,
                    <<"?", "d", "o", "c", "=", "1", "&", "p", "d", "f", "=", "2">>,
                    <<"?", "d", "o", "c", "=">>, <<"?", "z", "i", "p">>}
    IN  {h \o p \o q : h \in hosts, p \in paths, q \in queries}

ResponseHeaders ==
    LET types == {ApplicationPdf,
                  <<" ">> \o ApplicationPdf
                    \o <<";", " ", "c", "h", "a", "r", "s", "e", "t", "=", "x">>,
                  TextPlain, <<"x", "/", "k">>}
    IN  {NoHeaders, [given |-> TRUE, present |-> FALSE, ctype |-> <<>>]}
          \cup {[given |-> TRUE, present |-> TRUE, ctype |-> c] : c \in types}

OriginalNames == {<<>>, <<"k">>, <<"k", ".", "t", "x", "t">>, <<"k", ".">>, <<".", "k">>}

InitExtension ==
    /\ Rest
    /\ fnPc = "get_file_extension"
    /\ fnArg \in [url : Urls, response_headers : ResponseHeaders,
                  original_filename : OriginalNames]
    /\ fnRet = <<>>

\* lines 157-287: one call
GetExtension ==
    /\ fnPc = "get_file_extension"
    /\ fnRet' = get_file_extension(fnArg.url, fnArg.response_headers,
                                   fnArg.original_filename)
    /\ fnPc' = "extension"
    /\ UNCHANGED <<fnArg, RestVars>>

SpecExtension == InitExtension /\ [][GetExtension]_vars

\* what the five tiers produce for the arguments of the call
TierResults ==
    <<OriginalExt(fnArg.original_filename), UrlPathExt(fnArg.url),
      MimeExt(fnArg.response_headers), PatternExt(fnArg.url), TableExt(fnArg.url)>>

\* C14: get_file_extension returns what the first tier that produces an
\* extension produces, in the order original filename, URL path, media type,
\* pdf=/doc= pattern, format table; no later tier overrides an earlier one;
\* the result is never empty, and it is ".bin" when no tier produces one.
C14_FirstTierWins ==
    fnPc = "extension" =>
        LET tiers == TierResults IN
        /\ fnRet # <<>>
        /\ \A k \in 1..5 :
             (tiers[k] # <<>> /\ \A j \in 1..(k - 1) : tiers[j] = <<>>)
                => fnRet = tiers[k]
        /\ (\A k \in 1..5 : tiers[k] = <<>>) => fnRet = DefaultExt

\* the media type decides although the pattern and the table have a result
C14_Witness ==
    /\ fnPc = "extension"
    /\ fnRet = <<".", "t", "x", "t">>
    /\ LET tiers == TierResults IN
       /\ tiers[1] = <<>>
       /\ tiers[2] = <<>>
       /\ tiers[3] = <<".", "t", "x", "t">>
       /\ tiers[4] = <<".", "p", "d", "f">>
       /\ tiers[5] # <<>>

\* C15 as stated: for every URL whose path has no extension and a response
\* with Content-Type application/pdf the result is ".pdf", and for every URL
\* that holds doc=<digits>, with no Content-Type supplied, it is ".doc"
\* (calls without an original filename).
C15_PdfAndDocAlways ==
    (fnPc = "extension" /\ fnArg.original_filename = <<>>) =>
        /\ ( /\ SplitExt(Basename(UrlPath(fnArg.url))) = <<>>
             /\ fnArg.response_headers.present
             /\ MediaType(fnArg.response_headers.ctype) = ApplicationPdf )
              => fnRet = <<".", "p", "d", "f">>
        /\ ( /\ HasParam(fnArg.url, <<"d", "o", "c">>)
             /\ ~fnArg.response_headers.present )
              => fnRet = <<".", "d", "o", "c">>

\* C15: when the original filename has no extension: for every URL whose
\* path has no extension and a response with Content-Type application/pdf
\* the result is ".pdf"; for every URL that holds doc=<digits> and no
\* pdf=<digits>, whose path has no extension of at most 10 characters, with
\* no Content-Type that maps to an extension, the result is ".doc".
C15_PdfAndDocInference ==
    (fnPc = "extension" /\ OriginalExt(fnArg.original_filename) = <<>>) =>
        /\ ( /\ SplitExt(Basename(UrlPath(fnArg.url))) = <<>>
             /\ fnArg.response_headers.present
             /\ MediaType(fnArg.response_headers.ctype) = ApplicationPdf )
              => fnRet = <<".", "p", "d", "f">>
        /\ ( /\ HasParam(fnArg.url, <<"d", "o", "c">>)
             /\ ~HasParam(fnArg.url, <<"p", "d", "f">>)
             /\ UrlPathExt(fnArg.url) = <<>>
             /\ MimeExt(fnArg.response_headers) = <<>> )
              => fnRet = <<".", "d", "o", "c">>

\* a URL with doc=1 after a path whose extension is too long to be taken,
\* and no headers
C15_Witness ==
    /\ fnPc = "extension"
    /\ fnArg.original_filename = <<>>
    /\ ~fnArg.response_headers.given
    /\ HasParam(fnArg.url, <<"d", "o", "c">>)
    /\ SplitExt(Basename(UrlPath(fnArg.url))) # <<>>
    /\ fnRet = <<".", "d", "o", "c">>

----------------------------------------------------------------------------
\* download_file, lines 308-335: the name of the file

\* line 313: the parameter of the header the pattern looks for
FilenameKey == <<"f", "i", "l", "e", "n", "a", "m", "e", "=">>

\* line 313: re.findall('filename="(.+?)"', cd)[0]: the shortest nonempty text
\* between the first filename=" that has a closing quote and that quote; the
\* empty string when there is no match
DispositionName(cd) ==
    LET prefix == FilenameKey \o <<"\"">>
        closing(i) == {q \in (i + Len(prefix) + 1)..Len(cd) : cd[q] = "\""}
        starts == {i \in 1..Len(cd) :
                     /\ Slice(cd, i, i + Len(prefix) - 1) = prefix
                     /\ closing(i) # {}}
    IN  IF starts = {} THEN <<>>
        ELSE Slice(cd, Smallest(starts) + Len(prefix),
                   Smallest(closing(Smallest(starts))) - 1)

\* line 326: filename.split('?')[0]
BeforeQuery(name) ==
    LET marks == Positions(name, {"?"}) IN
    IF marks = {} THEN name ELSE Slice(name, 1, Smallest(marks) - 1)

\* lines 309-322: original_filename; None (here the empty string) when the
\* caller gave a filename
OriginalFilename(url, response_headers, filename) ==
    IF filename # <<>> THEN <<>>
    ELSE IF response_headers.disposed /\ DispositionName(response_headers.cd) # <<>>
    THEN DispositionName(response_headers.cd)
    ELSE Basename(UrlPath(url))

\* lines 310-326: the filename before an extension is appended
ResolvedFilename(url, response_headers, filename) ==
    IF filename # <<>> THEN filename
    ELSE BeforeQuery(OriginalFilename(url, response_headers, filename))

\* lines 329-335: the resolver is asked when the name has no extension or a
\* bare dot
WithExtension(url, response_headers, filename) ==
    LET name == ResolvedFilename(url, response_headers, filename) IN
    IF Len(SplitExt(name)) <= 1
    THEN name \o get_file_extension(url, response_headers,
                                    OriginalFilename(url, response_headers, filename))
    ELSE name

\* The URLs download_file requests are absolute (lines 293-294).
FileUrls ==
    LET paths == {<<>>, <<"/">>, <<"/", "k">>, <<"/", "k", "/">>,
                  <<"/", "k", ".", "p", "h", "p">>}
    IN  {<<"h", "t", "t", "p", ":", "/", "/", "h">> \o p \o q :
            p \in paths, q \in {<<>>, <<"?", "i", "d", "=", "1">>}}

Dispositions ==
    LET attachment == <<"a", "t", "t", "a", "c", "h", "m", "e", "n", "t", ";", " ">>
        Quoted(s) == <<"\"">> \o s \o <<"\"">>
    IN  {<<"i", "n", "l", "i", "n", "e">>,
         attachment \o FilenameKey \o <<"k", ".", "p", "d", "f">>,
         attachment \o FilenameKey \o Quoted(<<"k", ".", "p", "d", "f">>),
         attachment \o FilenameKey \o Quoted(<<"k", "?", "v", "=", "2">>),
         attachment \o FilenameKey \o Quoted(<<"?">>)}

FileHeaders ==
    {[given |-> TRUE, present |-> c # <<>>, ctype |-> c, disposed |-> FALSE, cd |->
        <<>>] :
        c \in {<<>>, ApplicationPdf}}
      \cup {[given |-> TRUE, present |-> c # <<>>, ctype |-> c, disposed |->
          TRUE, cd |-> d] :
              c \in {<<>>, ApplicationPdf}, d \in Dispositions}

SuggestedNames == {<<>>, <<"k">>, <<"k", ".", "p", "d", "f">>}

InitFilename ==
    /\ Rest
    /\ fnPc = "filename"
    /\ fnArg \in [url : FileUrls, response_headers : FileHeaders,
                  filename : SuggestedNames]
    /\ fnRet = <<>>

\* lines 308-335
ResolveFilename ==
    /\ fnPc = "filename"
    /\ fnRet' = [resolved |-> ResolvedFilename(fnArg.url, fnArg.response_headers,
                                               fnArg.filename),
                 filename |-> WithExtension(fnArg.url, fnArg.response_headers,
                                            fnArg.filename)]
    /\ fnPc' = "named"
    /\ UNCHANGED <<fnArg, RestVars>>

SpecFilename == InitFilename /\ [][ResolveFilename]_vars

\* C19: when download_file is called without a suggested filename, the
\* filename before the extension is appended is the Content-Disposition
\* filename if there is one, else the basename of the URL path if that is not
\* empty, else a generated placeholder: it holds no "?" and is never empty.
C19_FilenameNeverEmpty ==
    (fnPc = "named" /\ fnArg.filename = <<>>) =>
        /\ Positions(fnRet.resolved, {"?"}) = {}
        /\ fnRet.resolved # <<>>

----------------------------------------------------------------------------
\* get_courses and _extract_courses_from_page (lines 89-155)

\* lines 94-98: the pages that list courses
NumCoursePages == 3
\* courses one page lists
MaxEntries == 1

\* base_url, a site at the root of its host
BaseUrl == <<"h", "t", "t", "p", ":", "/", "/", "h">>

\* line 152: url.startswith(("http://", "https://"))
IsAbsolute(href) ==
    \/ Slice(href, 1, 7) = <<"h", "t", "t", "p", ":", "/", "/">>
    \/ Slice(href, 1, 8) = <<"h", "t", "t", "p", "s", ":", "/", "/">>

\* urljoin(base_url, href) for a base without a path and an href that is a
\* path, rooted or not
UrlJoin(base, href) ==
    IF href # <<>> /\ href[1] = "/" THEN base \o href ELSE base \o <<"/">> \o href

\* The href is kept as the page has it.
KeepHref(href) == href

\* lines 151-153: the URL of a course is made absolute
Absolute(href) == IF IsAbsolute(href) THEN href ELSE UrlJoin(BaseUrl, href)

\* lines 114-121: the first course of each URL, in the order of the list
UniqueCourses(courses) ==
    LET kept[i \in 0..Len(courses)] ==
            IF i = 0 THEN <<>>
            ELSE IF \E j \in 1..Len(kept[i - 1]) : kept[i - 1][j].url = courses[i].url
                 THEN kept[i - 1]
                 ELSE Append(kept[i - 1], courses[i])
    IN  kept[Len(courses)]

\* The links to courses a page can hold: course 7 with a rooted and with an
\* absolute href, course 8, each under one of two texts.
PageLinks ==
    LET view == <<"/", "c", "o", "u", "r", "s", "e", "/", "v", "i", "e", "w", ".",
                  "p", "h", "p", "?", "i", "d", "=">>
        hrefs == {view \o <<"7">>, BaseUrl \o view \o <<"7">>, BaseUrl \o view \o <<"8">>}
        links == [url : hrefs, name : {"Algebra", "My courses: Algebra"}]
    IN  UNION {[1..n -> links] : n \in 0..MaxEntries}

InitCourses ==
    /\ Rest
    /\ fnPc = "get_courses"
    /\ fnArg = [page |-> 1, links |-> <<>>, courses |-> <<>>]
    /\ fnRet = <<>>

\* lines 100-111 and 125-155: one page is fetched and its course links are
\* added, with absolute URLs, to the list; a page that fails adds nothing
CoursesPage ==
    /\ fnPc = "get_courses"
    /\ fnArg.page <= NumCoursePages
    /\ \E ok \in BOOLEAN, found \in PageLinks :
         fnArg' = IF ok
                  THEN [page |-> fnArg.page + 1,
                        links |-> fnArg.links \o found,
                        courses |-> fnArg.courses \o
                            [i \in 1..Len(found) |->
                                [url |-> Absolute(found[i].url), name |-> found[i].name]]]
                  ELSE [fnArg EXCEPT !.page = fnArg.page + 1]
    /\ UNCHANGED <<fnPc, fnRet, RestVars>>

\* lines 113-123: the duplicates are removed
Deduplicate ==
    /\ fnPc = "get_courses"
    /\ fnArg.page > NumCoursePages
    /\ fnRet' = UniqueCourses(fnArg.courses)
    /\ fnPc' = "courses"
    /\ UNCHANGED <<fnArg, RestVars>>

NextCourses == CoursesPage \/ Deduplicate

SpecCourses == InitCourses /\ [][NextCourses]_vars

\* the number of the course an href points to
CourseOf(href) == href[Len(href)]

\* the position of the first link to the course of a returned entry
FirstLink(entry) ==
    Smallest({i \in 1..Len(fnArg.links) :
                CourseOf(fnArg.links[i].url) = CourseOf(entry.url)})

\* C16: the list get_courses returns holds each course found exactly once, by
\* its absolute URL, also when pages list it under different texts or once
\* with a relative and once with an absolute href; no course found is lost;
\* the entry kept is the one found first; the order of first discovery is kept.
C16_CoursesDeduplicated ==
    fnPc = "courses" =>
        /\ \A i, j \in 1..Len(fnRet) :
             CourseOf(fnRet[i].url) = CourseOf(fnRet[j].url) => i = j
        /\ \A i \in 1..Len(fnArg.links) :
             \E k \in 1..Len(fnRet) :
                CourseOf(fnRet[k].url) = CourseOf(fnArg.links[i].url)
        /\ \A k \in 1..Len(fnRet) :
             /\ IsAbsolute(fnRet[k].url)
             /\ \E i \in 1..Len(fnArg.links) :
                  CourseOf(fnRet[k].url) = CourseOf(fnArg.links[i].url)
             /\ fnRet[k].name = fnArg.links[FirstLink(fnRet[k])].name
        /\ \A k, l \in 1..Len(fnRet) :
             k < l => FirstLink(fnRet[k]) < FirstLink(fnRet[l])

\* course 7 is listed with a rooted href and then with an absolute one under
\* another text, course 8 after them
C16_Witness ==
    /\ fnPc = "courses"
    /\ Len(fnArg.links) = 3
    /\ ~IsAbsolute(fnArg.links[1].url)
    /\ IsAbsolute(fnArg.links[2].url)
    /\ CourseOf(fnArg.links[1].url) = CourseOf(fnArg.links[2].url)
    /\ fnArg.links[1].name # fnArg.links[2].name
    /\ CourseOf(fnArg.links[3].url) # CourseOf(fnArg.links[1].url)
    /\ Len(fnRet) = 2

----------------------------------------------------------------------------
\* run(), lines 766-777: the selection of courses

\* numbers the user enters on the line
MaxTokens == 2

\* int(token): blanks around, an optional sign, then digits only
IntBody(token) ==
    LET s == Strip(token, {" "}) IN
    IF s # <<>> /\ s[1] \in {"+", "-"} THEN Tail(s) ELSE s

\* int(token) does not raise ValueError
IsInt(token) ==
    /\ IntBody(token) # <<>>
    /\ \A i \in 1..Len(IntBody(token)) : IntBody(token)[i] \in Digits

\* the value of int(token)
IntOf(token) ==
    LET body == IntBody(token)
        digit(d) ==
            CHOOSE n \in 0..9 :
                <<"0", "1", "2", "3", "4", "5", "6", "7", "8", "9">>[n + 1] = d
        value[i \in 0..Len(body)] ==
            IF i = 0 THEN 0 ELSE 10 * value[i - 1] + digit(body[i])
        negative == Strip(token, {" "})[1] = "-"
    IN  IF negative THEN 0 - value[Len(body)] ELSE value[Len(body)]

\* selection.split(','): the pieces between the commas
SplitCommas(line) ==
    LET commas == Positions(line, {","})
        cut(k) == IF k = 0 THEN 0
                  ELSE IF k > Cardinality(commas) THEN Len(line) + 1
                  ELSE CHOOSE p \in commas : Cardinality({q \in commas : q <= p}) = k
    IN  [k \in 1..(Cardinality(commas) + 1) |-> Slice(line, cut(k - 1) + 1, cut(k) - 1)]

\* lines 769-777: the numbers of the selected courses, in the order they are
\* processed in, for n courses found
Selected(n, line) ==
    LET all == [i \in 1..n |-> i]
        tokens == SplitCommas(line)
        indices == [k \in 1..Len(tokens) |-> IntOf(tokens[k]) - 1]
        InRange(index) == 0 <= index /\ index < n
    IN  IF Lower(line) = <<"a", "l", "l">> THEN all
        ELSE IF \A k \in 1..Len(tokens) : IsInt(tokens[k])
        THEN [k \in 1..Len(SelectSeq(indices, InRange)) |->
                SelectSeq(indices, InRange)[k] + 1]
        ELSE all

\* What the user can type: up to MaxTokens pieces separated by commas, or
\* the word all
SelectionLines ==
    LET pieces == {<<>>, <<"x">>, <<"0">>, <<"1">>, <<" ", "2">>, <<"-", "1">>, <<"9">>}
        Commas(ps) ==
            LET joined[k \in 1..Len(ps)] ==
                    IF k = 1 THEN ps[1] ELSE joined[k - 1] \o <<",">> \o ps[k]
            IN  joined[Len(ps)]
    IN  {<<"a", "l", "l">>, <<"A", "l", "l">>} \cup
            {Commas(ps) : ps \in UNION {[1..k -> pieces] : k \in 1..MaxTokens}}

\* line 758: run() returns before the prompt when no course was found
InitSelect ==
    /\ Rest
    /\ fnPc = "input"
    /\ fnArg \in [courses : 1..NumCourses, selection : SelectionLines]
    /\ fnRet = <<>>

\* lines 766-777
Select ==
    /\ fnPc = "input"
    /\ fnRet' = Selected(fnArg.courses, fnArg.selection)
    /\ fnPc' = "selected"
    /\ UNCHANGED <<fnArg, RestVars>>

SpecSelect == InitSelect /\ [][Select]_vars

\* every piece of the line is a number within 1..N
AllWithinRange ==
    \A k \in 1..Len(SplitCommas(fnArg.selection)) :
        /\ IsInt(SplitCommas(fnArg.selection)[k])
        /\ IntOf(SplitCommas(fnArg.selection)[k]) \in 1..fnArg.courses

\* C17: the input "all" selects every course; a comma-separated list of
\* 1-based indices that are all within 1..N selects exactly those courses;
\* every other input (a piece that is not a number, an empty line, an index
\* of 0, below 0 or above N) selects every course.
C17_InvalidSelectsAll ==
    fnPc = "selected" =>
        LET all == [i \in 1..fnArg.courses |-> i] IN
        IF Lower(fnArg.selection) = <<"a", "l", "l">> THEN fnRet = all
        ELSE IF AllWithinRange
        THEN fnRet = [k \in 1..Len(SplitCommas(fnArg.selection)) |->
                        IntOf(SplitCommas(fnArg.selection)[k])]
        ELSE fnRet = all

----------------------------------------------------------------------------
\* process_course on a portal that serves every link: the files of a course

\* sections of the course page
NumSections == 2
\* links of one section
LinksPerSection == 2

SectionNames == {<<"s">>, <<"t">>}
LinkNames == {<<"k">>, <<"q">>}
LinkLengths == {SmallLen, SmallLen + Tolerance}

\* what get_file_extension returns for the URLs and headers of the links
PdfExt == <<".", "p", "d", "f">>

\* lines 329-338: the last segment of full_path for a link text and the
\* extension the resolver returns
TargetName(name, ext) ==
    sanitize_filename(IF Len(SplitExt(name)) <= 1 THEN name \o ext ELSE name)

\* the paths below the course directory that the links of the model can have
CoursePaths ==
    {<<sanitize_filename(s), TargetName(n, PdfExt)>> : s \in SectionNames, n \in LinkNames}

\* lines 344-383 when no request and no file operation fails: what call n
\* leaves at a path that held f, for the response headers h
Downloaded(force, f, h, n) ==
    IF SkipExisting(force, f, h) \/ SkipEmpty(h) THEN f
    ELSE [exists |-> TRUE, size |-> ContentLength(h), ver |-> n]

\* the download directory is empty
InitSection ==
    /\ Rest
    /\ fnPc = "course"
    /\ fnArg \in [total : 1..NumSections, sections : {0}, dir : {<<>>}, left : {0},
                  links : {0}]
    /\ fnRet = [p \in CoursePaths |-> NoFile]

\* lines 425-435: the next section and its directory
OpenSection ==
    /\ fnPc = "course"
    /\ \E s \in SectionNames, n \in 1..LinksPerSection :
         fnArg' = [fnArg EXCEPT !.sections = @ + 1, !.dir = sanitize_filename(s),
                                !.left = n]
    /\ fnPc' = "links"
    /\ UNCHANGED <<fnRet, RestVars>>

\* lines 481-499: one link of the section, a pluginfile.php link (493) or a
\* resource/view.php link whose probe is redirected to the file (529-539):
\* both end in download_file(url, directory, name)
DownloadLink ==
    /\ fnPc = "links"
    /\ \E kind \in {"pluginfile", "resource"}, name \in LinkNames, len \in LinkLengths :
         fnRet' = [fnRet EXCEPT ![<<fnArg.dir, TargetName(name, PdfExt)>>] =
                      Downloaded(force_download, @,
                                 [got |-> TRUE, present |-> TRUE, value |-> len],
                                 fnArg.links + 1)]
    /\ fnArg' = [fnArg EXCEPT !.left = @ - 1, !.links = @ + 1]
    /\ fnPc' = IF fnArg.left > 1 THEN "links"
               ELSE IF fnArg.sections < fnArg.total THEN "course"
               ELSE "done"
    /\ UNCHANGED RestVars

NextSection == OpenSection \/ DownloadLink

SpecSection == InitSection /\ [][NextSection]_vars

\* C18: when every link of every section is served with a nonzero content
\* length, the download directory was empty and the session is valid, the
\* course directory holds exactly one downloaded file per link processed,
\* at <section>/<name>.
C18_OneFilePerLink ==
    fnPc = "done" =>
        Cardinality({p \in CoursePaths : fnRet[p].exists}) = fnArg.links

----------------------------------------------------------------------------
\* The order of the requests of a session

\* C21: every step of the run after its start (course discovery, page
\* fetches, probes, downloads) is taken with the session logged in, and the
\* login of run() that allows it received a body without failure marker;
\* inside download_file the streaming GET is issued only from the position
\* the header probe of the same URL leads to, and a probe that detected the
\* expiry leads to the next probe only through a login() that succeeded.
C21_SessionOrdering ==
    [][ /\ rpc # "start" => loggedIn
        /\ (rpc = "start" /\ loggedIn') => loginBody' = "clean"
        /\ gets' > gets => pc = "get"
        /\ (pc' = "get" /\ pc # "get")
              => (pc = "head" /\ urlLogin' = urlLogin)
        /\ pc = "login" => pc' # "get"
        /\ (pc = "login" /\ pc' = "head")
              => /\ loginBody' = "clean"
                 /\ logins' = logins + 1
                 /\ urlLogin' = urlLogin ]_vars

\* C21 witness: inside the crawl a probe detected the expiry, login()
\* succeeded, the second probe passed and the streaming GET has been issued.
C21_Witness ==
    /\ loggedIn
    /\ rpc \in Phases
    /\ depth = 1
    /\ logins = 1
    /\ loginBody = "clean"
    /\ gets = 1
    /\ pc = "check"

\* C22: a resolution that ends without a file and without an exception, for
\* a page that has the resource identifier and a course-module id, has passed
\* every one of the constructed file-serving URLs of strategy 8 to
\* download_file before it wrote the debug dump.
C22_PatternsAttempted ==
    ( /\ ppc = "ret"
      /\ pageResult = "none"
      /\ page.fetched
      /\ page.cmid
      /\ hasId
      /\ errSite = "none" )
    => /\ Cardinality({i \in DOMAIN attempts : attempts[i] = 8}) = NumPatterns
       /\ debug

\* C23: when the redirect probe of strategy 1 was answered with a redirect to
\* the login page, the download started on that Location writes nothing: the
\* file at the target path stays what it was before the call.
C23_LoginPageNotSaved ==
    (ppc = "probe" /\ parsedLogin = "probe")
    => /\ file = pre
       /\ outcome # "written"

\* C24: a response without content-length header is read as a length of
\* zero: the call writes nothing to the target path; when no exception was
\* raised it returns the existing path if force is unset and a file of
\* nonzero size is there, and None (the empty-file branch) otherwise.
C24_NoLengthAsZero ==
    (pc = "ret" /\ resp.got /\ ~resp.present)
    => /\ file = pre
       /\ outcome # "written"
       /\ outcome # "error"
             => IF ~force_download /\ pre.exists /\ pre.size > 0
                THEN result = "path" /\ outcome = "skipped"
                ELSE result = "none" /\ outcome = "empty"

\* C24 witness: no file at the target path, a response without
\* content-length header, and the call has returned None.
C24_Witness ==
    /\ pc = "ret"
    /\ resp.got
    /\ ~resp.present
    /\ ~pre.exists
    /\ decision = "empty"
    /\ result = "none"

\* C25: a first call that failed while it streamed the body left a partial
\* file of its own at the target path; a second call on the same target,
\* force unset, the server reporting the same length, that raises no
\* exception ends with a file of the full reported length.
C25_RestartCompletes ==
    ( /\ pc = "ret"
      /\ calls = 1
      /\ ~force_download
      /\ prev.outcome = "error"
      /\ prev.post.exists
      /\ prev.post.ver = 1
      /\ prev.post.size < ContentLength(prev.resp)
      /\ resp = prev.resp
      /\ outcome # "error" )
    => file.size = ContentLength(resp)

\* C26: every link processed so far has its own file below the course
\* directory: the download of link n is on disk, written by link n, neither
\* skipped because an earlier link's file was at its path nor overwritten by
\* a later link.
C26_NoLinkMasked ==
    \A n \in 1..fnArg.links :
        \E p \in CoursePaths : fnRet[p].exists /\ fnRet[p].ver = n

============================================================================
